---- MODULE Spec2Model ----
(***************************************************************************)
(* Model of pyxmpp/error.py: the XMPP stream / stanza error codec.         *)
(*                                                                         *)
(* ElementTree elements live in a heap (a sequence of nodes, an element    *)
(* reference is its index), so that copying and sharing of subtrees is     *)
(* visible.  Python values are tagged records, so that a unicode string, a *)
(* byte string, an int and None stay distinguishable the way the code's    *)
(* isinstance / dictionary look-ups distinguish them.                      *)
(***************************************************************************)
EXTENDS Integers, Sequences, FiniteSets, TLC

(***************************************************************************)
(* Bounds of the model.                                                    *)
(***************************************************************************)
MaxChildren == 2      \* children of a caller-built <error/> element
MaxCustom == 1        \* add_custom_condition calls on one Error Value
MaxEncodes == 1       \* as_xml calls in one run
MaxMutations == 1     \* caller mutations of elements in one run
MaxText == 2          \* Text Entries of one Error Value

(***************************************************************************)
(* Python values.                                                          *)
(***************************************************************************)
PyNone == [ty |-> "None", s |-> "", n |-> 0]
PyUnicode(x) == [ty |-> "unicode", s |-> x, n |-> 0]
PyStr(x) == [ty |-> "str", s |-> x, n |-> 0]
PyInt(k) == [ty |-> "int", s |-> "", n |-> k]
PyElement(id) == [ty |-> "Element", s |-> "", n |-> id]

IsBasestring(v) == v.ty \in {"str", "unicode"}
IsElement(v) == v.ty = "Element"
\* truth value of a Python object in "if x:" / "if not x:"
Truthy(v) ==
    CASE v.ty = "None" -> FALSE
      [] v.ty \in {"str", "unicode"} -> v.s # ""
      [] v.ty = "int" -> v.n # 0
      [] OTHER -> TRUE

(***************************************************************************)
(* Namespaces (pyxmpp.constants) and qualified names.  A tag               *)
(* "{ns}local" is the record [ns, local]; a tag without a namespace has    *)
(* ns = "".  X_QNP is "{X_NS}", so tag.startswith(X_QNP) is tag.ns = X_NS. *)
(***************************************************************************)
STREAM_NS == "http://etherx.jabber.org/streams"
STREAM_ERROR_NS == "urn:ietf:params:xml:ns:xmpp-streams"
STANZA_ERROR_NS == "urn:ietf:params:xml:ns:xmpp-stanzas"
STANZA_CLIENT_NS == "jabber:client"
STANZA_SERVER_NS == "jabber:server"
STANZA_NAMESPACES == {STANZA_CLIENT_NS, STANZA_SERVER_NS}
CUSTOM_NS == "urn:example:custom"

QName(ns, local) == [ns |-> ns, local |-> local]

(***************************************************************************)
(* The condition registry.                                                 *)
(***************************************************************************)
STREAM_ERRORS ==
    {"bad-format", "bad-namespace-prefix", "conflict", "connection-timeout",
     "host-gone", "host-unknown", "improper-addressing",
     "internal-server-error", "invalid-from", "invalid-namespace",
     "invalid-xml", "not-authorized", "not-well-formed", "policy-violation",
     "remote-connection-failed", "reset", "resource-constraint",
     "restricted-xml", "see-other-host", "system-shutdown",
     "undefined-condition", "unsupported-encoding", "unsupported-feature",
     "unsupported-stanza-type", "unsupported-version"}

\* name -> (default error type, default legacy code); the message text,
\* element [0] of each tuple, is only read by get_message
STANZA_ERRORS ==
    [ x \in {"bad-request", "conflict", "feature-not-implemented",
             "forbidden", "gone", "internal-server-error", "item-not-found",
             "jid-malformed", "not-acceptable", "not-allowed",
             "not-authorized", "policy-violation", "recipient-unavailable",
             "redirect", "registration-required", "remote-server-not-found",
             "remote-server-timeout", "resource-constraint",
             "service-unavailable", "subscription-required",
             "undefined-condition", "unexpected-request"} |->
      CASE x = "bad-request" -> <<"modify", 400>>
        [] x = "conflict" -> <<"cancel", 409>>
        [] x = "feature-not-implemented" -> <<"cancel", 501>>
        [] x = "forbidden" -> <<"auth", 403>>
        [] x = "gone" -> <<"modify", 302>>
        [] x = "internal-server-error" -> <<"wait", 500>>
        [] x = "item-not-found" -> <<"cancel", 404>>
        [] x = "jid-malformed" -> <<"modify", 400>>
        [] x = "not-acceptable" -> <<"modify", 406>>
        [] x = "not-allowed" -> <<"cancel", 405>>
        [] x = "not-authorized" -> <<"auth", 401>>
        [] x = "policy-violation" -> <<"cancel", 405>>
        [] x = "recipient-unavailable" -> <<"wait", 404>>
        [] x = "redirect" -> <<"modify", 302>>
        [] x = "registration-required" -> <<"auth", 407>>
        [] x = "remote-server-not-found" -> <<"cancel", 404>>
        [] x = "remote-server-timeout" -> <<"wait", 504>>
        [] x = "resource-constraint" -> <<"wait", 500>>
        [] x = "service-unavailable" -> <<"cancel", 503>>
        [] x = "subscription-required" -> <<"auth", 407>>
        [] x = "undefined-condition" -> <<"cancel", 500>>
        [] x = "unexpected-request" -> <<"wait", 400>> ]

\* STANZA_ERRORS re-keyed by qualified name
STANZA_ERRORS_Q ==
    [ q \in {QName(STANZA_ERROR_NS, x) : x \in DOMAIN STANZA_ERRORS} |->
        STANZA_ERRORS[q.local] ]

UNDEFINED_STREAM_CONDITION == QName(STREAM_ERROR_NS, "undefined-condition")
UNDEFINED_STANZA_CONDITION == QName(STANZA_ERROR_NS, "undefined-condition")

OBSOLETE_CONDITIONS ==
    [ q \in {QName(STREAM_ERROR_NS, "xml-not-well-formed"),
             QName(STREAM_ERROR_NS, "invalid-id"),
             QName(STANZA_ERROR_NS, "payment-required")} |->
      CASE q = QName(STREAM_ERROR_NS, "xml-not-well-formed") ->
                QName(STREAM_ERROR_NS, "not-well-formed")
        [] q = QName(STREAM_ERROR_NS, "invalid-id") ->
                UNDEFINED_STREAM_CONDITION
        [] q = QName(STANZA_ERROR_NS, "payment-required") ->
                UNDEFINED_STANZA_CONDITION ]

\* keyed by Python ints
LEGACY_CODES ==
    [ k \in {PyInt(c) : c \in {302, 400, 401, 402, 403, 404, 405, 406, 407,
                               408, 409, 500, 501, 502, 503, 504, 510}} |->
      CASE k.n = 302 -> "redirect"
        [] k.n = 400 -> "bad-request"
        [] k.n = 401 -> "not-authorized"
        [] k.n = 402 -> "payment-required"
        [] k.n = 403 -> "forbidden"
        [] k.n = 404 -> "item-not-found"
        [] k.n = 405 -> "not-allowed"
        [] k.n = 406 -> "not-acceptable"
        [] k.n = 407 -> "registration-required"
        [] k.n = 408 -> "remote-server-timeout"
        [] k.n = 409 -> "conflict"
        [] k.n = 500 -> "internal-server-error"
        [] k.n = 501 -> "feature-not-implemented"
        [] k.n = 502 -> "service-unavailable"
        [] k.n = 503 -> "service-unavailable"
        [] k.n = 504 -> "remote-server-timeout"
        [] k.n = 510 -> "service-unavailable" ]

(***************************************************************************)
(* ElementTree: nodes, construction, deepcopy.                             *)
(***************************************************************************)
NoAttrib == [type |-> PyNone, code |-> PyNone]

\* ElementTree.Element(tag): a fresh element without attributes or children
Element(h, tag) ==
    Append(h, [tag |-> tag, attrib |-> NoAttrib, children |-> <<>>, rev |-> 0])

RECURSIVE deepcopy(_, _)
RECURSIVE CopyChildren(_, _, _)
\* copies of the elements kids, in order; ids are the copies' references
CopyChildren(h, kids, ids) ==
    IF kids = <<>> THEN [heap |-> h, ids |-> ids]
    ELSE LET h1 == deepcopy(h, Head(kids))
         IN  CopyChildren(h1, Tail(kids), Append(ids, Len(h1)))

\* copy.deepcopy(element): the copy is the last node of the returned heap
deepcopy(h, id) ==
    LET r == CopyChildren(h, h[id].children, <<>>)
    IN  Append(r.heap, [h[id] EXCEPT !.children = r.ids])

(***************************************************************************)
(* Error Values.  An interpreter state st = [raised, self, heap, log]      *)
(* threads the object under construction, the heap and the number of       *)
(* logger.warning calls through the methods; raised names the exception    *)
(* that ended the call, "none" when it returned.                           *)
(***************************************************************************)
\* class attributes of ErrorElement's subclasses
error_qname(cls) ==
    IF cls = "stream" THEN QName(STREAM_NS, "error")
    ELSE QName(STANZA_CLIENT_NS, "error")
text_qname(cls) ==
    IF cls = "stream" THEN QName(STREAM_NS, "text")
    ELSE QName(STANZA_CLIENT_NS, "text")
cond_qname_prefix(cls) ==
    IF cls = "stream" THEN STREAM_ERROR_NS ELSE STANZA_ERROR_NS

\* an object of class cls before __init__ has set anything
NewObject(cls) ==
    [cls |-> cls,
     error_qname |-> error_qname(cls),
     text_qname |-> text_qname(cls),
     cond_qname_prefix |-> cond_qname_prefix(cls),
     condition |-> PyNone,
     text |-> <<>>,
     custom_condition |-> <<>>,
     error_type |-> PyNone,
     legacy_code |-> PyNone]

NoValue == NewObject("none")

Raise(st, exc) == [st EXCEPT !.raised = exc]

\* self.condition = deepcopy(child), h1 being the heap with the copy
SetCondition(st, h1) ==
    [st EXCEPT !.heap = h1, !.self.condition = PyElement(Len(h1))]

\* FromXmlChild with a later condition replacing the one already found
FromXmlChild_LastWins(st, child) ==
    IF st.heap[child].tag.ns = st.self.cond_qname_prefix
    THEN [SetCondition(st, deepcopy(st.heap, child)) EXCEPT
            !.log = IF st.self.condition # PyNone THEN @ + 1 ELSE @]
    ELSE Raise(st, "NameError")

\* one iteration of the loop over the children in ErrorElement._from_xml
FromXmlChild(st, child) ==
    IF st.heap[child].tag.ns = st.self.cond_qname_prefix
    THEN IF st.self.condition # PyNone
         THEN [st EXCEPT !.log = @ + 1]
         ELSE SetCondition(st, deepcopy(st.heap, child))
    ELSE IF st.heap[child].tag = st.self.text_qname
    THEN \* XML_LANG_QNAME is not defined in the module
         Raise(st, "NameError")
    ELSE \* STANZA_SERVER_QNP is not defined in the module: building the
         \* tuple of reserved prefixes fails
         Raise(st, "NameError")

RECURSIVE FromXmlLoop(_, _)
FromXmlLoop(st, kids) ==
    IF kids = <<>> \/ st.raised # "none" THEN st
    ELSE FromXmlLoop(FromXmlChild(st, Head(kids)), Tail(kids))

\* the statements of ErrorElement._from_xml after the loop
FromXmlFinish(s1) ==
    IF s1.raised # "none" THEN s1
    ELSE IF s1.self.condition = PyNone
    THEN SetCondition(s1, Element(s1.heap, QName(s1.self.cond_qname_prefix,
                                                 "undefined-condition")))
    ELSE IF s1.heap[s1.self.condition.n].tag \in DOMAIN OBSOLETE_CONDITIONS
    THEN \* OBSOLETE_CONDITIONS[condition.tag]: condition is not defined
         Raise(s1, "NameError")
    ELSE s1

ErrorElement_from_xml(st, element) ==
    IF st.heap[element].tag # st.self.error_qname
    THEN Raise(st, "ValueError")
    ELSE FromXmlFinish(FromXmlLoop([st EXCEPT !.self.condition = PyNone],
                                   st.heap[element].children))

\* the statements of StanzaErrorElement._from_xml after the base _from_xml
StanzaFromXmlAttributes(s1, error_type, legacy_code) ==
    LET s2 == IF Truthy(error_type)
              THEN [s1 EXCEPT !.self.error_type = error_type]
              ELSE s1
        s3 == [s2 EXCEPT !.self.legacy_code = legacy_code]
    IN  IF s1.raised # "none" THEN s1
        ELSE IF ~Truthy(legacy_code) THEN s2
        ELSE IF /\ s1.heap[s1.self.condition.n].tag
                        = UNDEFINED_STANZA_CONDITION
                /\ legacy_code \in DOMAIN LEGACY_CODES
        THEN \* LEGACY_CODES[legacy_code] is a string, not an element
             [s3 EXCEPT !.self.condition = PyStr(LEGACY_CODES[legacy_code])]
        ELSE s3

StanzaErrorElement_from_xml(st, element) ==
    StanzaFromXmlAttributes(ErrorElement_from_xml(st, element),
                            st.heap[element].attrib.type,
                            st.heap[element].attrib.code)

\* self._from_xml(element) dispatches on the class of self
Dispatch_from_xml(st, element) ==
    IF st.self.cls = "stanza" THEN StanzaErrorElement_from_xml(st, element)
    ELSE ErrorElement_from_xml(st, element)

\* the statements of ErrorElement.__init__ that store the description
InitDescription(s1, description, lang) ==
    IF s1.raised # "none" THEN s1
    ELSE IF Truthy(description)
    THEN \* list.append called with two arguments
         Raise([s1 EXCEPT !.self.text = SelectSeq(@, LAMBDA t : t[1] # lang)],
               "TypeError")
    ELSE s1

ErrorElement_init(st, element_or_cond, description, lang) ==
    InitDescription(
        IF IsBasestring(element_or_cond)
        THEN SetCondition(
                [st EXCEPT !.self.text = <<>>, !.self.custom_condition = <<>>],
                Element(st.heap, QName(st.self.cond_qname_prefix,
                                       element_or_cond.s)))
        ELSE IF ~IsElement(element_or_cond)
        THEN Raise(st, "TypeError")
        ELSE Dispatch_from_xml(
                [st EXCEPT !.self.text = <<>>, !.self.custom_condition = <<>>],
                element_or_cond.n),
        description, lang)

StreamErrorElement_init(st, element_or_cond, description, lang) ==
    IF /\ element_or_cond.ty = "unicode"
       /\ element_or_cond.s \notin STREAM_ERRORS
    THEN Raise(st, "ValueError")
    ELSE ErrorElement_init(st, element_or_cond, description, lang)

\* StanzaInitDefaults with the explicit argument used only when _from_xml
\* has not set a type
StanzaInitDefaults_WireFirst(s1, error_type) ==
    LET s2 == IF error_type # PyNone /\ ~Truthy(s1.self.error_type)
              THEN [s1 EXCEPT !.self.error_type = error_type]
              ELSE s1
        ctag == s2.heap[s2.self.condition.n].tag
        cond == IF ctag \in DOMAIN STANZA_ERRORS_Q
                THEN ctag ELSE UNDEFINED_STANZA_CONDITION
        s3 == IF ~Truthy(s2.self.error_type)
              THEN [s2 EXCEPT !.self.error_type =
                                    PyStr(STANZA_ERRORS_Q[cond][1])]
              ELSE s2
        s4 == IF ~Truthy(s3.self.legacy_code)
              THEN [s3 EXCEPT !.self.legacy_code =
                                    PyInt(STANZA_ERRORS_Q[cond][2])]
              ELSE s3
    IN  IF s1.raised # "none" THEN s1
        ELSE IF ~IsElement(s1.self.condition)
        THEN Raise(s1, "AttributeError")
        ELSE s4

\* the statements of StanzaErrorElement.__init__ after the base __init__
StanzaInitDefaults(s1, error_type) ==
    LET s2 == IF error_type # PyNone
              THEN [s1 EXCEPT !.self.error_type = error_type]
              ELSE s1
        ctag == s2.heap[s2.self.condition.n].tag
        cond == IF ctag \in DOMAIN STANZA_ERRORS_Q
                THEN ctag ELSE UNDEFINED_STANZA_CONDITION
        s3 == IF ~Truthy(s2.self.error_type)
              THEN [s2 EXCEPT !.self.error_type =
                                    PyStr(STANZA_ERRORS_Q[cond][1])]
              ELSE s2
        s4 == IF ~Truthy(s3.self.legacy_code)
              THEN [s3 EXCEPT !.self.legacy_code =
                                    PyInt(STANZA_ERRORS_Q[cond][2])]
              ELSE s3
    IN  IF s1.raised # "none" THEN s1
        ELSE IF ~IsElement(s1.self.condition)
        THEN \* self.condition.tag on a string
             Raise(s1, "AttributeError")
        ELSE s4

\* self.error_qname / self.text_qname of a decoded stanza error follow the
\* namespace of the element
StanzaNames(st, element_or_cond) ==
    IF IsBasestring(element_or_cond) THEN st
    ELSE [st EXCEPT
            !.self.error_qname =
                QName(st.heap[element_or_cond.n].tag.ns, "error"),
            !.self.text_qname =
                QName(st.heap[element_or_cond.n].tag.ns, "text")]

StanzaErrorElement_init(st, element_or_cond, description, lang, error_type) ==
    IF /\ IsBasestring(element_or_cond)
       /\ element_or_cond.s \notin DOMAIN STANZA_ERRORS
    THEN Raise(st, "ValueError")
    ELSE IF /\ ~IsBasestring(element_or_cond)
            /\ st.heap[element_or_cond.n].tag.ns \notin STANZA_NAMESPACES
    THEN \* a namespace that is not sanctioned, or no namespace at all
         Raise(st, "ValueError")
    ELSE StanzaInitDefaults(
            ErrorElement_init(
                StanzaNames([st EXCEPT !.self.error_type = PyNone,
                                       !.self.legacy_code = PyNone],
                            element_or_cond),
                element_or_cond, description, lang),
            error_type)

\* the constructor call cls(element_or_cond, description, lang[, error_type])
Construct(cls, h, element_or_cond, description, lang, error_type) ==
    IF cls = "stanza"
    THEN StanzaErrorElement_init(
            [raised |-> "none", self |-> NewObject(cls), heap |-> h,
             log |-> 0],
            element_or_cond, description, lang, error_type)
    ELSE StreamErrorElement_init(
            [raised |-> "none", self |-> NewObject(cls), heap |-> h,
             log |-> 0],
            element_or_cond, description, lang)

\* the condition_name property
condition_name(self, h) == h[self.condition.n].tag.local

(***************************************************************************)
(* Encoding.                                                               *)
(***************************************************************************)
\* an element tag with the last node of h as its only child
ElementWithChild(h, tag) ==
    Append(h, [tag |-> tag, attrib |-> NoAttrib, children |-> <<Len(h)>>,
               rev |-> 0])

\* ErrorElement_as_xml without the condition child
ErrorElement_as_xml_NoCondition(st) ==
    IF st.self.text # <<>>
    THEN Raise([st EXCEPT !.heap = Element(st.heap, st.self.error_qname)],
               "NameError")
    ELSE [st EXCEPT !.heap = Element(st.heap, st.self.error_qname)]

\* ErrorElement.as_xml; the result is the last node of the returned heap
ErrorElement_as_xml(st) ==
    IF st.self.text # <<>>
    THEN \* XML_LANG_QNAME is not defined in the module
         Raise([st EXCEPT !.heap =
                    ElementWithChild(deepcopy(st.heap, st.self.condition.n),
                                     st.self.error_qname)], "NameError")
    ELSE [st EXCEPT !.heap =
                    ElementWithChild(deepcopy(st.heap, st.self.condition.n),
                                     st.self.error_qname)]

\* StanzaAttributes setting the code attribute in every mode
StanzaAttributes_AlwaysCode(s1, legacy) ==
    IF s1.raised # "none" THEN s1
    ELSE [s1 EXCEPT !.heap[Len(s1.heap)].attrib.type = s1.self.error_type,
                    !.heap[Len(s1.heap)].attrib.code = s1.self.legacy_code]

\* the statements of StanzaErrorElement.as_xml after the base as_xml
StanzaAttributes(s1, legacy) ==
    IF s1.raised # "none" THEN s1
    ELSE IF ~legacy
    THEN [s1 EXCEPT !.heap[Len(s1.heap)].attrib.type = s1.self.error_type]
    ELSE IF /\ ~Truthy(s1.self.legacy_code)
            /\ s1.heap[s1.self.condition.n].tag \notin DOMAIN STANZA_ERRORS_Q
    THEN Raise([s1 EXCEPT !.heap[Len(s1.heap)].attrib.type
                                = s1.self.error_type], "KeyError")
    ELSE [s1 EXCEPT !.heap[Len(s1.heap)].attrib.type = s1.self.error_type,
                    !.heap[Len(s1.heap)].attrib.code = s1.self.legacy_code]

StanzaErrorElement_as_xml(st, legacy) ==
    StanzaAttributes(ErrorElement_as_xml(st), legacy)

\* self.as_xml(...) dispatches on the class of self; the stream class takes
\* no legacy argument
Dispatch_as_xml(st, legacy) ==
    IF st.self.cls = "stanza" THEN StanzaErrorElement_as_xml(st, legacy)
    ELSE ErrorElement_as_xml(st)

\* Python's == on the values used as language tags: a str and a unicode
\* with the same characters are equal
PyEq(a, b) ==
    IF IsBasestring(a) /\ IsBasestring(b) THEN a.s = b.s ELSE a = b

\* the loop of ErrorElement.get_description over the entries text[i..]:
\* the first entry whose language is lang, text[1] when the loop ends
RECURSIVE DescriptionLoop(_, _, _)
DescriptionLoop(text, lang, i) ==
    IF i > Len(text) THEN text[1]
    ELSE IF PyEq(text[i][1], lang) THEN text[i]
    ELSE DescriptionLoop(text, lang, i + 1)

\* get_description ignoring the preferred language
get_description_FirstEntry(self, lang) ==
    IF self.text = <<>> THEN <<PyNone, PyNone>> ELSE self.text[1]

\* ErrorElement.get_description
get_description(self, lang) ==
    IF self.text = <<>> THEN <<PyNone, PyNone>>
    ELSE DescriptionLoop(self.text, lang, 1)

\* ErrorElement.add_custom_condition
add_custom_condition(self, element) ==
    [self EXCEPT !.custom_condition = Append(@, element)]

(***************************************************************************)
(* Inputs.                                                                 *)
(***************************************************************************)
\* condition strings handed to the constructors, as unicode and as str
ConditionNames == STREAM_ERRORS \cup DOMAIN STANZA_ERRORS \cup {"bogus"}
StringInputs == {PyUnicode(x) : x \in ConditionNames}
                    \cup {PyStr(x) : x \in {"conflict", "bogus"}}

\* (description, lang) arguments
DescriptionInputs == {<<PyNone, PyNone>>, <<PyUnicode("Erreur"), PyUnicode("fr")>>}

\* explicit error_type arguments: None or one of the documented types
ErrorTypeInputs == {PyNone, PyUnicode("modify")}

OuterTags ==
    {QName(STREAM_NS, "error"), QName(STANZA_CLIENT_NS, "error"),
     QName(STANZA_SERVER_NS, "error"), QName(CUSTOM_NS, "error"),
     QName(STANZA_CLIENT_NS, "message"), QName("", "error")}

\* (type, code) attributes of the outer element
AttribInputs ==
    {<<PyNone, PyNone>>, <<PyStr(""), PyNone>>, <<PyStr("auth"), PyNone>>,
     <<PyNone, PyStr("404")>>, <<PyStr("auth"), PyStr("404")>>,
     <<PyNone, PyStr("999")>>, <<PyNone, PyStr("")>>}

ChildTags ==
    {QName(STANZA_ERROR_NS, "item-not-found"),
     QName(STANZA_ERROR_NS, "undefined-condition"),
     QName(STANZA_ERROR_NS, "payment-required"),
     QName(STANZA_ERROR_NS, "x-extension"),
     QName(STREAM_ERROR_NS, "conflict"),
     QName(STREAM_ERROR_NS, "xml-not-well-formed"),
     QName(STANZA_CLIENT_NS, "text"),
     QName(STREAM_NS, "text"),
     QName(STANZA_CLIENT_NS, "body"),
     QName(CUSTOM_NS, "detail")}

ChildSeqs == UNION {[1..k -> ChildTags] : k \in 0..MaxChildren}

\* (language, description) entries the caller appends to the text list
TextEntries ==
    {<<PyNone, PyUnicode("Error")>>, <<PyUnicode("fr"), PyUnicode("Erreur")>>,
     <<PyUnicode("fr"), PyUnicode("Faute")>>}

\* preferred languages handed to get_description
LangInputs == {PyNone, PyUnicode("fr"), PyStr("fr"), PyUnicode("de")}

\* elements handed to add_custom_condition
CustomTags == {QName(CUSTOM_NS, "detail")}

\* the caller builds <tag type= code=> with one leaf child per tag of kids;
\* the children come first, the outer element is the last node
BuildElement(h, tag, type, code, kids) ==
    LET n == Len(h)
        leaves == [i \in 1..Len(kids) |->
                     [tag |-> kids[i], attrib |-> NoAttrib,
                      children |-> <<>>, rev |-> 0]]
    IN  Append(h \o leaves,
               [tag |-> tag, attrib |-> [type |-> type, code |-> code],
                children |-> [i \in 1..Len(kids) |-> n + i], rev |-> 0])

\* an element and everything below it
RECURSIVE Subtree(_, _)
Subtree(h, id) ==
    {id} \cup UNION {Subtree(h, h[id].children[i]) :
                        i \in 1..Len(h[id].children)}

(***************************************************************************)
(* State.                                                                  *)
(***************************************************************************)
VARIABLES
    heap,        \* the ElementTree nodes allocated so far
    ev,          \* the Error Value of the last successful construction
    raised,      \* exception raised by the last call, "none" if it returned
    log,         \* logger.warning calls of the last construction
    op,          \* the last operation
    ctor,        \* arguments of the first constructor call
    redec,       \* arguments of the constructor call that decoded out
    src,         \* the element the last constructor call decoded, 0 if none
    out,         \* the element the last as_xml call returned, 0 if none
    legacyOut,   \* the legacy argument of the last as_xml call
    callerRefs,  \* elements the caller holds a reference to
    nEncodes,    \* number of as_xml calls
    nMutations,  \* number of caller mutations
    got          \* argument and result of the last get_description call

vars == <<heap, ev, raised, log, op, ctor, redec, src, out, legacyOut,
          callerRefs, nEncodes, nMutations, got>>

NoDescription == [lang |-> PyNone, result |-> <<PyNone, PyNone>>]

NoCall == [cls |-> "none", arg |-> PyNone, description |-> PyNone,
           lang |-> PyNone, error_type |-> PyNone]

Init ==
    /\ heap = <<>>
    /\ ev = NoValue
    /\ raised = "none"
    /\ log = 0
    /\ op = "init"
    /\ ctor = NoCall
    /\ redec = NoCall
    /\ src = 0
    /\ out = 0
    /\ legacyOut = FALSE
    /\ callerRefs = {}
    /\ nEncodes = 0
    /\ nMutations = 0
    /\ got = NoDescription

\* the effect of a constructor call on the state
Constructed(r) ==
    /\ heap' = r.heap
    /\ raised' = r.raised
    /\ log' = r.log
    /\ ev' = IF r.raised = "none" THEN r.self ELSE NoValue

\* StreamErrorElement(name, description, lang) /
\* StanzaErrorElement(name, description, lang, error_type)
NewFromString(cls, name, dl, error_type) ==
    /\ op = "init"
    /\ cls = "stream" => error_type = PyNone
    /\ Constructed(Construct(cls, heap, name, dl[1], dl[2], error_type))
    /\ op' = "from_string"
    /\ ctor' = [cls |-> cls, arg |-> name, description |-> dl[1],
                lang |-> dl[2], error_type |-> error_type]
    /\ UNCHANGED <<got, redec, src, out, legacyOut, callerRefs, nEncodes,
                   nMutations>>

\* the caller has built the element that is the last node of h1 and decodes
\* it
DecodeBuilt(cls, h1, error_type) ==
    /\ Constructed(Construct(cls, h1, PyElement(Len(h1)), PyNone, PyNone,
                             error_type))
    /\ src' = Len(h1)
    /\ callerRefs' = callerRefs \cup Subtree(h1, Len(h1))
    /\ ctor' = [cls |-> cls, arg |-> PyElement(Len(h1)),
                description |-> PyNone, lang |-> PyNone,
                error_type |-> error_type]

\* the caller builds an element and decodes it
NewFromElement(cls, tag, attrs, kids, error_type) ==
    /\ op = "init"
    /\ cls = "stream" => error_type = PyNone /\ attrs = <<PyNone, PyNone>>
    /\ DecodeBuilt(cls, BuildElement(heap, tag, attrs[1], attrs[2], kids),
                   error_type)
    /\ op' = "from_element"
    /\ UNCHANGED <<got, redec, out, legacyOut, nEncodes, nMutations>>

\* the caller decodes the element the last as_xml call returned
Redecode(cls, error_type) ==
    /\ out # 0
    /\ redec = NoCall
    /\ cls = "stream" => error_type = PyNone
    /\ Constructed(Construct(cls, heap, PyElement(out), PyNone, PyNone,
                             error_type))
    /\ src' = out
    /\ redec' = [cls |-> cls, arg |-> PyElement(out), description |-> PyNone,
                 lang |-> PyNone, error_type |-> error_type]
    /\ op' = "redecode"
    /\ UNCHANGED <<got, ctor, out, legacyOut, callerRefs, nEncodes, nMutations>>

\* the caller builds an element and calls ev.add_custom_condition(element)
AddCustomCondition(tag) ==
    /\ ev # NoValue
    /\ Len(ev.custom_condition) < MaxCustom
    /\ heap' = Element(heap, tag)
    /\ ev' = add_custom_condition(ev, Len(heap) + 1)
    /\ callerRefs' = callerRefs \cup {Len(heap) + 1}
    /\ raised' = "none"
    /\ op' = "add_custom_condition"
    /\ UNCHANGED <<got, log, ctor, redec, src, out, legacyOut, nEncodes,
                   nMutations>>

\* the effect of an as_xml call on the state
Encoded(r) ==
    /\ heap' = r.heap
    /\ raised' = r.raised
    /\ out' = IF r.raised = "none" THEN Len(r.heap) ELSE 0
    /\ callerRefs' = IF r.raised = "none"
                     THEN callerRefs \cup Subtree(r.heap, Len(r.heap))
                     ELSE callerRefs

\* ev.as_xml() / ev.as_xml(legacy)
AsXml(legacy) ==
    /\ ev # NoValue
    /\ nEncodes < MaxEncodes
    /\ ev.cls = "stream" => ~legacy
    /\ Encoded(Dispatch_as_xml([raised |-> "none", self |-> ev,
                                heap |-> heap, log |-> log], legacy))
    /\ legacyOut' = legacy
    /\ nEncodes' = nEncodes + 1
    /\ op' = "as_xml"
    /\ UNCHANGED <<got, ev, log, ctor, redec, src, nMutations>>

\* the caller, holding an Error Value, changes an element it has a
\* reference to
CallerMutate(id) ==
    /\ ev # NoValue
    /\ id \in callerRefs
    /\ nMutations < MaxMutations
    /\ heap' = [heap EXCEPT ![id].rev = @ + 1]
    /\ nMutations' = nMutations + 1
    /\ op' = "mutate"
    /\ UNCHANGED <<got, ev, raised, log, ctor, redec, src, out, legacyOut,
                   callerRefs, nEncodes>>

\* a first constructor call with a condition name
ConstructFromString ==
    /\ op = "init"
    /\ \E cls \in {"stream", "stanza"}, name \in StringInputs,
          dl \in DescriptionInputs, et \in ErrorTypeInputs :
            NewFromString(cls, name, dl, et)

\* a first constructor call with an element
ConstructFromElement ==
    /\ op = "init"
    /\ \E cls \in {"stream", "stanza"}, tag \in OuterTags,
          attrs \in AttribInputs, kids \in ChildSeqs,
          et \in ErrorTypeInputs :
            NewFromElement(cls, tag, attrs, kids, et)

\* a constructor call with the encoded element
ConstructFromEncoded ==
    /\ out # 0
    /\ \E cls \in {"stream", "stanza"}, et \in ErrorTypeInputs :
            Redecode(cls, et)

CallAddCustomCondition == \E tag \in CustomTags : AddCustomCondition(tag)

CallAsXml == \E legacy \in BOOLEAN : AsXml(legacy)

Mutate == \E id \in callerRefs : CallerMutate(id)

Next ==
    \/ ConstructFromString
    \/ ConstructFromElement
    \/ ConstructFromEncoded
    \/ CallAddCustomCondition
    \/ CallAsXml
    \/ Mutate

Spec == Init /\ [][Next]_vars

(***************************************************************************)
(* The description accessor.  No constructor call that returns leaves a    *)
(* Text Entry (a description argument ends __init__ with TypeError, a text *)
(* child ends _from_xml with NameError); entries reach the public text     *)
(* list of an Error Value when its holder appends to it.                   *)
(***************************************************************************)
\* ev.text.append((lang, description))
AppendText(entry) ==
    /\ ev # NoValue
    /\ Len(ev.text) < MaxText
    /\ ev' = [ev EXCEPT !.text = Append(@, entry)]
    /\ op' = "append_text"
    /\ UNCHANGED <<heap, raised, log, ctor, redec, src, out, legacyOut,
                   callerRefs, nEncodes, nMutations, got>>

\* ev.get_description(lang)
GetDescription(lang) ==
    /\ ev # NoValue
    /\ got' = [lang |-> lang, result |-> get_description(ev, lang)]
    /\ raised' = "none"
    /\ op' = "get_description"
    /\ UNCHANGED <<heap, ev, log, ctor, redec, src, out, legacyOut,
                   callerRefs, nEncodes, nMutations>>

CallAppendText == \E entry \in TextEntries : AppendText(entry)

CallGetDescription == \E lang \in LangInputs : GetDescription(lang)

NextText ==
    \/ ConstructFromString
    \/ CallAppendText
    \/ CallGetDescription

SpecText == Init /\ [][NextText]_vars

(***************************************************************************)
(* Vocabulary of the properties.                                           *)
(***************************************************************************)
\* the last call was a constructor call decoding the element src
Decoded == op \in {"from_element", "redecode"}
\* the arguments of the last constructor call
LastCall == IF op = "redecode" THEN redec ELSE ctor
\* the last call was a constructor call of class cls
ConstructedAs(cls) ==
    op \in {"from_string", "from_element", "redecode"} /\ LastCall.cls = cls

TagsOf(h, ids) == [i \in 1..Len(ids) |-> h[ids[i]].tag]
SrcTag == heap[src].tag
SrcKids == TagsOf(heap, heap[src].children)

\* the condition namespace of the class the last call constructed
CondNS == cond_qname_prefix(LastCall.cls)
\* the outer element carries the category's outer error name
OuterNameOK ==
    IF LastCall.cls = "stream" THEN SrcTag = QName(STREAM_NS, "error")
    ELSE SrcTag.ns \in STANZA_NAMESPACES /\ SrcTag.local = "error"
\* the children in the condition namespace, in document order
CondKids == SelectSeq(SrcKids, LAMBDA t : t.ns = CondNS)
\* the condition on the wire: the first condition candidate, or the
\* category's undefined-condition
WireCondition ==
    IF CondKids = <<>> THEN QName(CondNS, "undefined-condition")
    ELSE CondKids[1]
IsTextKid(t) == t = QName(SrcTag.ns, "text")
ReservedNS == {STREAM_NS, STANZA_CLIENT_NS, STANZA_SERVER_NS,
               STANZA_ERROR_NS, STREAM_ERROR_NS}
\* the numeric value of a code attribute, 0 when it has none
CodeNumber(v) ==
    CASE v.ty = "int" -> v.n
      [] v.s = "404" -> 404
      [] v.s = "999" -> 999
      [] OTHER -> 0
LegacyNumbers == {k.n : k \in DOMAIN LEGACY_CODES}
\* the element carries a code the Legacy Code Mapper knows and no
\* informative condition
LegacyUpgradeCase ==
    /\ LastCall.cls = "stanza"
    /\ WireCondition = UNDEFINED_STANZA_CONDITION
    /\ CodeNumber(heap[src].attrib.code) \in LegacyNumbers
\* every child of the decoded element is a condition candidate
OnlyCondKids == \A i \in 1..Len(SrcKids) : SrcKids[i].ns = CondNS
ConditionTag == heap[ev.condition.n].tag
Unmutated(h, id) == \A k \in Subtree(h, id) : h[k].rev = 0

(***************************************************************************)
(* C1: a stanza error element with a numeric code attribute and no         *)
(* informative condition decodes to the Legacy Code Mapper's condition for *)
(* that code; a recognized condition other than undefined-condition is     *)
(* never changed by the code attribute.                                    *)
(***************************************************************************)
C1_LegacyCodeUpgrade ==
    (Decoded /\ LastCall.cls = "stanza" /\ OuterNameOK /\ OnlyCondKids
        /\ WireCondition \notin DOMAIN OBSOLETE_CONDITIONS)
    => /\ raised = "none"
       /\ IsElement(ev.condition)
       /\ ConditionTag =
            IF LegacyUpgradeCase
            THEN QName(STANZA_ERROR_NS,
                       LEGACY_CODES[PyInt(CodeNumber(heap[src].attrib.code))])
            ELSE WireCondition

(***************************************************************************)
(* C2: decoding an element whose condition child has a deprecated name     *)
(* yields an Error Value whose condition carries the canonical replacement *)
(* name; any other condition name passes through unchanged.                *)
(***************************************************************************)
C2_ObsoleteNormalized ==
    (Decoded /\ OuterNameOK /\ OnlyCondKids /\ CondKids # <<>>
        /\ heap[src].attrib.code = PyNone)
    => /\ raised = "none"
       /\ IsElement(ev.condition)
       /\ ConditionTag =
            IF WireCondition \in DOMAIN OBSOLETE_CONDITIONS
            THEN OBSOLETE_CONDITIONS[WireCondition]
            ELSE WireCondition

(***************************************************************************)
(* C3: the encoded element is a fresh outer error element whose children   *)
(* are a copy of the condition, then one text child per Text Entry, then a *)
(* copy of every Custom Condition in stored order.                         *)
(***************************************************************************)
C3_EncodeShape ==
    (op = "as_xml" /\ raised = "none")
    => LET kids == heap[out].children
           nt == Len(ev.text)
       IN  /\ heap[out].tag = ev.error_qname
           /\ Len(kids) = 1 + nt + Len(ev.custom_condition)
           /\ heap[kids[1]].tag = ConditionTag
           /\ kids[1] # ev.condition.n
           /\ \A i \in 1..nt : heap[kids[1 + i]].tag = ev.text_qname
           /\ \A i \in 1..Len(ev.custom_condition) :
                /\ heap[kids[1 + nt + i]].tag
                        = heap[ev.custom_condition[i]].tag
                /\ kids[1 + nt + i] # ev.custom_condition[i]

(***************************************************************************)
(* C4: for every name of the stream vocabulary, constructing a Stream      *)
(* Error from the name, encoding it and decoding the encoded element       *)
(* yields an Error Value with the same condition name and no Text Entry.   *)
(***************************************************************************)
C4_StreamRoundTrip ==
    (op = "redecode" /\ ctor.cls = "stream" /\ IsBasestring(ctor.arg)
        /\ ctor.arg.s \in STREAM_ERRORS /\ redec.cls = "stream"
        /\ Unmutated(heap, out))
    => /\ raised = "none"
       /\ IsElement(ev.condition)
       /\ condition_name(ev, heap) = ctor.arg.s
       /\ ev.text = <<>>

C4_Witness ==
    /\ op = "redecode" /\ ctor.cls = "stream" /\ redec.cls = "stream"
    /\ ctor.arg = PyUnicode("not-well-formed")
    /\ raised = "none"
    /\ condition_name(ev, heap) = "not-well-formed"

(***************************************************************************)
(* C5: a successfully decoded Error Value has exactly one condition: the   *)
(* first child in the category's condition namespace, or the synthesized   *)
(* undefined-condition when there is none; later condition candidates are  *)
(* logged and dropped and do not make the decoding fail.                   *)
(***************************************************************************)
C5_FirstConditionWins ==
    /\ (Decoded /\ raised = "none")
        => /\ IsElement(ev.condition)
           /\ ConditionTag = WireCondition
           /\ ev.condition.n \notin Subtree(heap, src)
    /\ (Decoded /\ OuterNameOK /\ OnlyCondKids
            /\ WireCondition \notin DOMAIN OBSOLETE_CONDITIONS
            /\ ~(LastCall.cls = "stanza" /\ WireCondition = UNDEFINED_STANZA_CONDITION
                    /\ heap[src].attrib.code \in DOMAIN LEGACY_CODES))
        => /\ raised = "none"
           /\ log = IF CondKids = <<>> THEN 0 ELSE Len(CondKids) - 1

C5_Witness ==
    /\ op = "from_element" /\ raised = "none"
    /\ Len(CondKids) = 2 /\ CondKids[1] # CondKids[2]
    /\ ConditionTag = CondKids[1]
    /\ log = 1

(***************************************************************************)
(* C6: when construction of a Stanza Error completes its error type is     *)
(* non-empty and is the explicit error_type argument if one was given,     *)
(* else the (non-empty) wire type attribute of the decoded element, else   *)
(* the registry default type of the resolved condition, the default of     *)
(* undefined-condition when the condition is not in the vocabulary.        *)
(***************************************************************************)
C6_ErrorTypeResolved ==
    (ConstructedAs("stanza") /\ raised = "none")
    => /\ Truthy(ev.error_type)
       /\ ev.error_type =
            IF LastCall.error_type # PyNone THEN LastCall.error_type
            ELSE IF Decoded /\ Truthy(heap[src].attrib.type)
            THEN heap[src].attrib.type
            ELSE IF ConditionTag.local \in DOMAIN STANZA_ERRORS
            THEN PyStr(STANZA_ERRORS[ConditionTag.local][1])
            ELSE PyStr(STANZA_ERRORS["undefined-condition"][1])

C6_Witness ==
    /\ op = "from_element" /\ raised = "none" /\ ev.cls = "stanza"
    /\ ctor.error_type = PyNone
    /\ ~Truthy(heap[src].attrib.type)
    /\ ConditionTag = QName(STANZA_ERROR_NS, "x-extension")
    /\ ev.error_type = PyStr("cancel")

(***************************************************************************)
(* C7: an encoded Stanza Error carries a type attribute equal to the       *)
(* resolved error type, and a code attribute only in legacy mode: the wire *)
(* code if the decoded element had one, else the registry default code of  *)
(* the resolved condition; a Stanza Error constructed from a vocabulary    *)
(* name without explicit type encodes the registry defaults of the name.   *)
(***************************************************************************)
C7_EncodedTypeAndCode ==
    (op = "as_xml" /\ raised = "none" /\ ev.cls = "stanza")
    => LET attrib == heap[out].attrib
           wire == IF src = 0 THEN PyNone ELSE heap[src].attrib.code
           name == IF ConditionTag.local \in DOMAIN STANZA_ERRORS
                   THEN ConditionTag.local ELSE "undefined-condition"
       IN  /\ attrib.type = ev.error_type
           /\ Truthy(attrib.type)
           /\ ~legacyOut => attrib.code = PyNone
           /\ legacyOut => attrib.code =
                IF Truthy(wire) THEN wire
                ELSE PyInt(STANZA_ERRORS[name][2])
           /\ (src = 0 /\ ctor.error_type = PyNone)
                => /\ attrib.type = PyStr(STANZA_ERRORS[ctor.arg.s][1])
                   /\ legacyOut
                        => attrib.code = PyInt(STANZA_ERRORS[ctor.arg.s][2])

C7_Witness ==
    /\ op = "as_xml" /\ raised = "none" /\ ev.cls = "stanza" /\ legacyOut
    /\ src = 0 /\ ctor.arg = PyUnicode("item-not-found")
    /\ ctor.error_type = PyNone
    /\ heap[out].attrib = [type |-> PyStr("cancel"), code |-> PyInt(404)]

(***************************************************************************)
(* C8: decoding an element whose qualified name is not the category's      *)
(* outer error name (for a stanza error: whose namespace is not            *)
(* sanctioned) fails, and so does constructing an error from a string      *)
(* outside the category's vocabulary; no Error Value is produced.          *)
(***************************************************************************)
C8_HardFailures ==
    /\ (Decoded /\ ~OuterNameOK)
        => raised = "ValueError" /\ ev = NoValue
    /\ (op = "from_string" /\ ctor.description = PyNone
            /\ ctor.arg.s \notin (IF ctor.cls = "stream" THEN STREAM_ERRORS
                                  ELSE DOMAIN STANZA_ERRORS))
        => raised = "ValueError" /\ ev = NoValue

(***************************************************************************)
(* C9: the elements an Error Value retains (condition, custom conditions)  *)
(* are not shared with the caller: a caller's change to the decoded        *)
(* element, to an element passed to add_custom_condition or to an encoded  *)
(* result leaves them as they were.                                        *)
(***************************************************************************)
RetainedIds ==
    (IF IsElement(ev.condition) THEN Subtree(heap, ev.condition.n) ELSE {})
    \cup UNION {Subtree(heap, ev.custom_condition[i]) :
                    i \in 1..Len(ev.custom_condition)}
Retained == [id \in RetainedIds |-> heap[id]]

C9_NoAliasing == [][op' = "mutate" => Retained' = Retained]_vars

(***************************************************************************)
(* C10: decoding drops (and logs) a child in a reserved namespace that is  *)
(* neither the condition nor the text element, keeps every other such      *)
(* child as a Custom Condition in document order, and succeeds; no Custom  *)
(* Condition of a decoded Error Value is in a reserved namespace.          *)
(***************************************************************************)
C10_ReservedDiscarded ==
    (Decoded /\ OuterNameOK
        /\ WireCondition \notin DOMAIN OBSOLETE_CONDITIONS
        /\ ~LegacyUpgradeCase
        /\ \A i \in 1..Len(SrcKids) : ~IsTextKid(SrcKids[i]))
    => /\ raised = "none"
       /\ TagsOf(heap, ev.custom_condition)
            = SelectSeq(SrcKids, LAMBDA t : t.ns \notin ReservedNS)
       /\ \A i \in 1..Len(ev.custom_condition) :
            heap[ev.custom_condition[i]].tag.ns \notin ReservedNS

(***************************************************************************)
(* C11: get_description(lang) returns the first Text Entry in stored order *)
(* whose language equals lang; when no entry matches, the first Text       *)
(* Entry; when there is no Text Entry, (None, None).                       *)
(***************************************************************************)
\* the positions of the entries in language lang
Matching(text, lang) == {i \in 1..Len(text) : PyEq(text[i][1], lang)}

C11_GetDescription ==
    (op = "get_description")
    => got.result =
        IF ev.text = <<>> THEN <<PyNone, PyNone>>
        ELSE IF Matching(ev.text, got.lang) = {} THEN ev.text[1]
        ELSE ev.text[CHOOSE i \in Matching(ev.text, got.lang) :
                        \A j \in Matching(ev.text, got.lang) : i <= j]

\* entries [(None, "Error"), ("fr", "Erreur")]: "fr" gets the French entry
C11_Witness ==
    /\ op = "get_description"
    /\ ev.text = << <<PyNone, PyUnicode("Error")>>,
                    <<PyUnicode("fr"), PyUnicode("Erreur")>> >>
    /\ got = [lang |-> PyUnicode("fr"),
              result |-> <<PyUnicode("fr"), PyUnicode("Erreur")>>]

\* the same entries: "de" gets the first entry
C11_WitnessFallback ==
    /\ op = "get_description"
    /\ ev.text = << <<PyNone, PyUnicode("Error")>>,
                    <<PyUnicode("fr"), PyUnicode("Erreur")>> >>
    /\ got = [lang |-> PyUnicode("de"),
              result |-> <<PyNone, PyUnicode("Error")>>]

====
